---- MODULE Spec2Model ----
(***************************************************************************)
(* Human review subsystem of guardrails/human_review.py: ReviewRequest,    *)
(* ReviewQueue and HumanReviewManager, run on one asyncio event loop.      *)
(* Every coroutine step between two awaits is one atomic action.           *)
(***************************************************************************)
EXTENDS Integers, Sequences, FiniteSets, TLC

\* ---------------------------------------------------------------- bounds
NumCallers == 2          \* concurrent check() calls on the one manager
TicksPerSec == 2         \* clock readings distinguished inside one second
MaxTime == 5             \* the clock stops here
MaxLate == 1             \* ticks by which asyncio.sleep(1) may overrun
timeout_seconds == 2     \* HumanReviewManager(timeout_seconds=...)
MaxQueueSize == 2        \* largest ReviewQueue(max_queue_size=...) tried
NumRequests == 3         \* requests added to the queue directly

Callers == 1..NumCallers

\* ------------------------------------------------------------- constants
InstanceSuffix == 4242   \* id(self) % 10000 of the one manager
NoTime == -1             \* None in a datetime field
NoRef == 0               \* None where a ReviewRequest is expected
None == "None"           \* None in a string field

PENDING == "pending"
APPROVED == "approved"
REJECTED == "rejected"
ESCALATED == "escalated"
TIMEOUT == "timeout"

ReviewStatus == {PENDING, APPROVED, REJECTED, ESCALATED, TIMEOUT}

LOW == "low"
HIGH == "high"
CRITICAL == "critical"

\* ---------------------------------------------------------------- inputs
EmptyContext == [k \in {} |-> FALSE]
FlagContext == [requires_human_review |-> TRUE]

\* a str: its characters, followed by pad more characters "."
\* "Please help me Delete my account"
DeleteContent ==
    [text |-> <<"P", "l", "e", "a", "s", "e", " ", "h", "e", "l", "p", " ", "m", "e", " ",
              "D", "e", "l", "e", "t", "e", " ", "m", "y", " ", "a", "c", "c", "o",
              "u", "n", "t">>,
     pad |-> 0]
\* "What's the weather?"
WeatherContent ==
    [text |-> <<"W", "h", "a", "t", "'", "s", " ", "t", "h", "e", " ", "w", "e", "a",
              "t", "h", "e", "r", "?">>,
     pad |-> 0]

\* the (content, context) pairs handed to check
CheckInputs == {<<DeleteContent, EmptyContext>>, <<WeatherContent, EmptyContext>>}

DemoContext == [demo |-> TRUE]

\* contents handed to _should_require_review: "ok", "ok" padded to 5000 and
\* to 5001 characters, "User BANNED", "del ete", "Privacy", ""
ReviewContents ==
    {[text |-> <<"o", "k">>, pad |-> 0],
     [text |-> <<"o", "k">>, pad |-> 4998],
     [text |-> <<"o", "k">>, pad |-> 4999],
     [text |-> <<"U", "s", "e", "r", " ", "B", "A", "N", "N", "E", "D">>, pad |-> 0],
     [text |-> <<"d", "e", "l", " ", "e", "t", "e">>, pad |-> 0],
     [text |-> <<"P", "r", "i", "v", "a", "c", "y">>, pad |-> 0],
     [text |-> <<>>, pad |-> 0]}

\* contents handed to ApprovalWorkflow.check: "Process a refund for
\* transaction #12345", "What are your business hours?", "I want to ban this
\* user permanently", "REFUND and DELETE"
ApprovalContents ==
    {[text |-> <<"P", "r", "o", "c", "e", "s", "s", " ", "a", " ", "r", "e", "f",
                 "u", "n", "d", " ", "f", "o", "r", " ", "t", "r", "a", "n", "s",
                 "a", "c", "t", "i", "o", "n", " ", "#", "1", "2", "3", "4", "5">>,
      pad |-> 0],
     [text |-> <<"W", "h", "a", "t", " ", "a", "r", "e", " ", "y", "o", "u", "r",
                 " ", "b", "u", "s", "i", "n", "e", "s", "s", " ", "h", "o", "u",
                 "r", "s", "?">>,
      pad |-> 0],
     [text |-> <<"I", " ", "w", "a", "n", "t", " ", "t", "o", " ", "b", "a", "n",
                 " ", "t", "h", "i", "s", " ", "u", "s", "e", "r", " ", "p", "e",
                 "r", "m", "a", "n", "e", "n", "t", "l", "y">>,
      pad |-> 0],
     [text |-> <<"R", "E", "F", "U", "N", "D", " ", "a", "n", "d", " ", "D", "E",
                 "L", "E", "T", "E">>,
      pad |-> 0]}

\* approval_keywords handed to ApprovalWorkflow(...): none, ["refund"],
\* ["Refund"], ["delete", "refund"]
ApprovalConfigs ==
    {<<>>,
     <<<<"r", "e", "f", "u", "n", "d">>>>,
     <<<<"R", "e", "f", "u", "n", "d">>>>,
     <<<<"d", "e", "l", "e", "t", "e">>, <<"r", "e", "f", "u", "n", "d">>>>}

ReviewContexts == {EmptyContext, FlagContext, [requires_human_review |-> FALSE], DemoContext}

\* f"demo_{uuid.uuid4().hex[:8]}": a fresh id for every request
DemoIds == {<<"demo", k, 0>> : k \in 1..NumRequests}

Reviewers == {"r1"}
Notes == {"ok"}

VARIABLES
    now,          \* datetime.now(), in ticks
    enabled,      \* BaseGuardrail.enabled
    max_queue_size, \* ReviewQueue.max_queue_size
    queue,        \* ReviewQueue._queue: sequence of request objects (by reference)
    completed,    \* ReviewQueue._completed_reviews: id -> request object
    req,          \* the ReviewRequest objects, by reference (the caller that built it)
    pc,           \* position of each check() call
    request_id,   \* local request_id of each check() call
    deadline,     \* local timeout_at of each _wait_for_review call
    wakeAt,       \* when the pending asyncio.sleep(1) of each call is due
    timers,       \* sleeping calls in the order the event loop wakes them
    result,       \* GuardrailResult returned by each check() call
    arg,          \* arguments of the stateless call under study
    returned      \* its return value

vars == <<now, enabled, max_queue_size, queue, completed, req, pc, request_id, deadline, wakeAt,
          timers, result, arg, returned>>

\* no stateless call is under way
NoCall == [fn |-> "none"]

NoResult == [passed |-> FALSE, severity |-> "none", message |-> "none",
             violations |-> <<>>, metadata |-> EmptyContext]
NoId == <<"none", 0, 0>>

\* ------------------------------------------------------- pure functions
Min(S) == CHOOSE x \in S : \A y \in S : x <= y

UpperCase == <<"A", "B", "C", "D", "E", "F", "G", "H", "I", "J", "K", "L", "M", "N",
             "O", "P", "Q", "R", "S", "T", "U", "V", "W", "X", "Y", "Z">>
LowerCase == <<"a", "b", "c", "d", "e", "f", "g", "h", "i", "j", "k", "l", "m", "n",
             "o", "p", "q", "r", "s", "t", "u", "v", "w", "x", "y", "z">>

\* str.lower()
Lower(s) ==
    [i \in 1..Len(s) |->
        IF \E k \in 1..Len(UpperCase) : UpperCase[k] = s[i]
        THEN LowerCase[CHOOSE k \in 1..Len(UpperCase) : UpperCase[k] = s[i]]
        ELSE s[i]]

\* len(content)
StrLen(content) == Len(content.text) + content.pad

\* keyword in s
Contains(keyword, s) ==
    \E i \in 1..(Len(s) - Len(keyword) + 1) : SubSeq(s, i, i + Len(keyword) - 1) = keyword

high_risk_keywords ==
    <<<<"d", "e", "l", "e", "t", "e">>,
      <<"r", "e", "m", "o", "v", "e">>,
      <<"b", "a", "n">>,
      <<"s", "u", "s", "p", "e", "n", "d">>,
      <<"t", "e", "r", "m", "i", "n", "a", "t", "e">>,
      <<"l", "e", "g", "a", "l">>,
      <<"l", "a", "w", "s", "u", "i", "t">>,
      <<"c", "o", "m", "p", "l", "i", "a", "n", "c", "e">>,
      <<"v", "i", "o", "l", "a", "t", "i", "o", "n">>,
      <<"s", "e", "n", "s", "i", "t", "i", "v", "e">>,
      <<"c", "o", "n", "f", "i", "d", "e", "n", "t", "i", "a", "l">>,
      <<"p", "r", "i", "v", "a", "t", "e">>>>

ContextGet(context, key, default) ==
    IF key \in DOMAIN context THEN context[key] ELSE default

\* _should_require_review with the length test "at least 5000"
should_require_review_atleast(content, context) ==
    IF ContextGet(context, "requires_human_review", FALSE) THEN TRUE
    ELSE IF \E k \in 1..Len(high_risk_keywords) :
                Contains(high_risk_keywords[k], Lower(content.text)) THEN TRUE
    ELSE IF StrLen(content) >= 5000 THEN TRUE
    ELSE FALSE

should_require_review(content, context) ==
    IF ContextGet(context, "requires_human_review", FALSE) THEN TRUE
    ELSE IF \E k \in 1..Len(high_risk_keywords) :
                Contains(high_risk_keywords[k], Lower(content.text)) THEN TRUE
    ELSE IF StrLen(content) > 5000 THEN TRUE
    ELSE FALSE

\* strftime("%Y%m%d_%H%M%S"): the clock reading truncated to whole seconds
Timestamp(t) == t \div TicksPerSec

generate_request_id(t) == <<"review", Timestamp(t), InstanceSuffix>>

\* ReviewRequest(id=..., content=..., context=..., timeout_at=...)
ReviewRequest(id, content, context, t, timeout_at) ==
    [id |-> id, content |-> content, context |-> context, created_at |-> t,
     status |-> PENDING, reviewer |-> None, review_notes |-> None,
     reviewed_at |-> NoTime, timeout_at |-> timeout_at]

\* ---------------------------------------------------------- ReviewQueue
\* indexes of the queue entries whose id is request_id
Matches(q, r, id) == {i \in 1..Len(q) : r[q[i]].id = id}

\* removal that moves the last entry into the gap
RemoveAt_swap(q, i) == [j \in 1..(Len(q) - 1) |-> IF j = i THEN q[Len(q)] ELSE q[j]]

RemoveAt(q, i) == [j \in 1..(Len(q) - 1) |-> IF j < i THEN q[j] ELSE q[j + 1]]

get_request(q, c, r, id) ==
    IF Matches(q, r, id) # {} THEN q[Min(Matches(q, r, id))]
    ELSE IF id \in DOMAIN c THEN c[id]
    ELSE NoRef

get_pending_requests(q, r) == SelectSeq(q, LAMBDA x : r[x].status = PENDING)

\* complete_review looking the request up with get_request instead of in the
\* queue only: a request already completed is completed again
complete_review_overwrite(q, c, r, id, status, reviewer, notes, t) ==
    IF get_request(q, c, r, id) = NoRef THEN [queue |-> q, completed |-> c, req |-> r, ret |-> FALSE]
    ELSE LET x == get_request(q, c, r, id)
         IN [queue |-> SelectSeq(q, LAMBDA y : y # x),
             completed |-> [k \in DOMAIN c \cup {id} |-> IF k = id THEN x ELSE c[k]],
             req |-> [r EXCEPT ![x] = [@ EXCEPT !.status = status, !.reviewer = reviewer,
                                                 !.review_notes = notes, !.reviewed_at = t]],
             ret |-> TRUE]

\* the queue, the completed map, the objects and the return value after
\* complete_review(request_id, status, reviewer, notes) run at time t
complete_review(q, c, r, id, status, reviewer, notes, t) ==
    IF Matches(q, r, id) = {} THEN [queue |-> q, completed |-> c, req |-> r, ret |-> FALSE]
    ELSE LET i == Min(Matches(q, r, id))
             x == q[i]
         IN [queue |-> RemoveAt(q, i),
             completed |-> [k \in DOMAIN c \cup {id} |-> IF k = id THEN x ELSE c[k]],
             req |-> [r EXCEPT ![x] = [@ EXCEPT !.status = status, !.reviewer = reviewer,
                                                 !.review_notes = notes, !.reviewed_at = t]],
             ret |-> TRUE]

\* the objects cleanup_expired_requests marks at time t
IsExpired(r, x, t) == r[x].timeout_at # NoTime /\ t > r[x].timeout_at

\* cleanup_expired_requests that marks the expired requests and keeps them
cleanup_expired_requests_keeps(q, r, t) ==
    LET marked == [x \in DOMAIN r |->
                      IF (\E i \in 1..Len(q) : q[i] = x) /\ IsExpired(r, x, t)
                      THEN [r[x] EXCEPT !.status = TIMEOUT] ELSE r[x]]
    IN [queue |-> q,
        req |-> marked,
        ret |-> SelectSeq(q, LAMBDA x : IsExpired(r, x, t))]

cleanup_expired_requests(q, r, t) ==
    LET marked == [x \in DOMAIN r |->
                      IF (\E i \in 1..Len(q) : q[i] = x) /\ IsExpired(r, x, t)
                      THEN [r[x] EXCEPT !.status = TIMEOUT] ELSE r[x]]
    IN [queue |-> SelectSeq(q, LAMBDA x : marked[x].status # TIMEOUT),
        req |-> marked,
        ret |-> SelectSeq(q, LAMBDA x : IsExpired(r, x, t))]

\* add_request refusing only above the maximum
add_request_above(q, x) ==
    IF Len(q) > max_queue_size THEN [queue |-> q, ret |-> FALSE]
    ELSE [queue |-> Append(q, x), ret |-> TRUE]

\* the queue and the return value after add_request(x)
add_request(q, x) ==
    IF Len(q) >= max_queue_size THEN [queue |-> q, ret |-> FALSE]
    ELSE [queue |-> Append(q, x), ret |-> TRUE]

\* --------------------------------------------------- HumanReviewManager
\* _create_result_from_review printing the notes as they are
create_result_from_review_blank(request) ==
    IF request.status = APPROVED THEN
        [passed |-> TRUE, severity |-> LOW, message |-> "Content approved by human reviewer",
         violations |-> <<>>,
         metadata |-> [request_id |-> request.id, reviewer |-> request.reviewer,
                       review_notes |-> request.review_notes]]
    ELSE IF request.status = REJECTED THEN
        [passed |-> FALSE, severity |-> HIGH, message |-> "Content rejected by human reviewer",
         violations |-> << <<"Rejected: ",
                             request.review_notes>> >>,
         metadata |-> [request_id |-> request.id, reviewer |-> request.reviewer,
                       review_notes |-> request.review_notes]]
    ELSE IF request.status = ESCALATED THEN
        [passed |-> FALSE, severity |-> CRITICAL, message |-> "Content escalated for further review",
         violations |-> <<"Content requires escalated review">>,
         metadata |-> [request_id |-> request.id, reviewer |-> request.reviewer,
                       review_notes |-> request.review_notes]]
    ELSE
        [passed |-> FALSE, severity |-> HIGH, message |-> "Human review timeout",
         violations |-> <<"Review request timed out">>,
         metadata |-> [request_id |-> request.id]]

create_result_from_review(request) ==
    IF request.status = APPROVED THEN
        [passed |-> TRUE, severity |-> LOW, message |-> "Content approved by human reviewer",
         violations |-> <<>>,
         metadata |-> [request_id |-> request.id, reviewer |-> request.reviewer,
                       review_notes |-> request.review_notes]]
    ELSE IF request.status = REJECTED THEN
        [passed |-> FALSE, severity |-> HIGH, message |-> "Content rejected by human reviewer",
         violations |-> << <<"Rejected: ",
                             IF request.review_notes \in {None, ""} THEN "No reason provided"
                             ELSE request.review_notes>> >>,
         metadata |-> [request_id |-> request.id, reviewer |-> request.reviewer,
                       review_notes |-> request.review_notes]]
    ELSE IF request.status = ESCALATED THEN
        [passed |-> FALSE, severity |-> CRITICAL, message |-> "Content escalated for further review",
         violations |-> <<"Content requires escalated review">>,
         metadata |-> [request_id |-> request.id, reviewer |-> request.reviewer,
                       review_notes |-> request.review_notes]]
    ELSE
        [passed |-> FALSE, severity |-> HIGH, message |-> "Human review timeout",
         violations |-> <<"Review request timed out">>,
         metadata |-> [request_id |-> request.id]]

TimeoutResult(id) ==
    [passed |-> FALSE, severity |-> HIGH, message |-> "Human review timeout",
     violations |-> <<"Review request timed out">>,
     metadata |-> [request_id |-> id, timeout_seconds |-> timeout_seconds]]

\* the verdicts check returns without waiting
DisabledResult ==
    [passed |-> TRUE, severity |-> LOW, message |-> "Human review disabled",
     violations |-> <<>>, metadata |-> [human_review_enabled |-> FALSE]]

NotRequiredResult ==
    [passed |-> TRUE, severity |-> LOW, message |-> "No human review required",
     violations |-> <<>>, metadata |-> [review_required |-> FALSE]]

QueueFullResult ==
    [passed |-> FALSE, severity |-> HIGH,
     message |-> "Review queue full - cannot process request",
     violations |-> <<"Review queue at capacity">>,
     metadata |-> [review_required |-> TRUE, queue_full |-> TRUE]]

\* what one pass through the while loop of _wait_for_review does at time t:
\* "sleep", "result" (a non-pending request was seen) or "timeout"
LoopOutcome(q, c, r, id, dl, t) ==
    IF t < dl THEN
        IF get_request(q, c, r, id) = NoRef THEN "timeout"
        ELSE IF r[get_request(q, c, r, id)].status # PENDING THEN "result"
        ELSE "sleep"
    ELSE "timeout"

\* one pass of the wait loop of call p, on the queue state (q, c, r)
WaitStep(p, q, c, r, id, dl) ==
    LET out == LoopOutcome(q, c, r, id, dl, now)
        done == complete_review(q, c, r, id, TIMEOUT, "system", None, now)
    IN /\ IF out = "sleep" THEN
              /\ pc' = [pc EXCEPT ![p] = "waiting"]
              /\ request_id' = [request_id EXCEPT ![p] = id]
              /\ deadline' = [deadline EXCEPT ![p] = dl]
              /\ wakeAt' = [wakeAt EXCEPT ![p] = now + TicksPerSec]
              /\ timers' = Append(SelectSeq(timers, LAMBDA x : x # p), p)
              /\ result' = result
              /\ queue' = q /\ completed' = c /\ req' = r
          ELSE IF out = "result" THEN
              /\ pc' = [pc EXCEPT ![p] = "done"]
              /\ request_id' = [request_id EXCEPT ![p] = NoId]
              /\ deadline' = [deadline EXCEPT ![p] = NoTime]
              /\ wakeAt' = [wakeAt EXCEPT ![p] = NoTime]
              /\ timers' = SelectSeq(timers, LAMBDA x : x # p)
              /\ result' = [result EXCEPT ![p] = create_result_from_review(r[get_request(q, c, r, id)])]
              /\ queue' = q /\ completed' = c /\ req' = r
          ELSE
              /\ pc' = [pc EXCEPT ![p] = "done"]
              /\ request_id' = [request_id EXCEPT ![p] = NoId]
              /\ deadline' = [deadline EXCEPT ![p] = NoTime]
              /\ wakeAt' = [wakeAt EXCEPT ![p] = NoTime]
              /\ timers' = SelectSeq(timers, LAMBDA x : x # p)
              /\ result' = [result EXCEPT ![p] = TimeoutResult(id)]
              /\ queue' = done.queue /\ completed' = done.completed /\ req' = done.req

Init ==
    /\ now = 0
    /\ enabled \in BOOLEAN
    /\ max_queue_size \in 1..MaxQueueSize
    /\ queue = <<>>
    /\ completed = [k \in {} |-> NoRef]
    /\ req = [x \in {} |-> NoRef]
    /\ pc = [p \in Callers |-> "idle"]
    /\ request_id = [p \in Callers |-> NoId]
    /\ deadline = [p \in Callers |-> NoTime]
    /\ wakeAt = [p \in Callers |-> NoTime]
    /\ timers = <<>>
    /\ result = [p \in Callers |-> NoResult]
    /\ arg = NoCall
    /\ returned = NoCall

\* calls are numbered in the order in which they arrive
Arrives(p) == pc[p] = "idle" /\ \A o \in Callers : o < p => pc[o] # "idle"

\* check() of a disabled manager that files the request before it returns
CheckDisabled_files(p, content, context) ==
    /\ Arrives(p)
    /\ ~enabled
    /\ pc' = [pc EXCEPT ![p] = "done"]
    /\ result' = [result EXCEPT ![p] = DisabledResult]
    /\ req' = [x \in DOMAIN req \cup {p} |->
                  IF x = p THEN ReviewRequest(generate_request_id(now), content, context, now,
                                              now + timeout_seconds * TicksPerSec)
                  ELSE req[x]]
    /\ queue' = Append(queue, p)
    /\ UNCHANGED <<arg, returned, now, enabled, max_queue_size, completed, request_id, deadline, wakeAt, timers>>

\* check() of a disabled manager
CheckDisabled(p, content, context) ==
    /\ Arrives(p)
    /\ ~enabled
    /\ pc' = [pc EXCEPT ![p] = "done"]
    /\ result' = [result EXCEPT ![p] = DisabledResult]
    /\ UNCHANGED <<arg, returned, now, enabled, max_queue_size, queue, completed, req, request_id, deadline, wakeAt, timers>>

\* check() on content that needs no review, filing the request all the same
CheckNotRequired_files(p, content, context) ==
    /\ Arrives(p)
    /\ enabled
    /\ ~should_require_review(content, context)
    /\ pc' = [pc EXCEPT ![p] = "done"]
    /\ result' = [result EXCEPT ![p] = NotRequiredResult]
    /\ req' = [x \in DOMAIN req \cup {p} |->
                  IF x = p THEN ReviewRequest(generate_request_id(now), content, context, now,
                                              now + timeout_seconds * TicksPerSec)
                  ELSE req[x]]
    /\ queue' = Append(queue, p)
    /\ UNCHANGED <<arg, returned, now, enabled, max_queue_size, completed, request_id, deadline, wakeAt, timers>>

\* check() on content that needs no review
CheckNotRequired(p, content, context) ==
    /\ Arrives(p)
    /\ enabled
    /\ ~should_require_review(content, context)
    /\ pc' = [pc EXCEPT ![p] = "done"]
    /\ result' = [result EXCEPT ![p] = NotRequiredResult]
    /\ UNCHANGED <<arg, returned, now, enabled, max_queue_size, queue, completed, req, request_id, deadline, wakeAt, timers>>

\* check() on content that needs review, with the queue at capacity
CheckQueueFull(p, content, context) ==
    /\ Arrives(p)
    /\ enabled
    /\ should_require_review(content, context)
    /\ ~add_request(queue, p).ret
    /\ pc' = [pc EXCEPT ![p] = "done"]
    /\ result' = [result EXCEPT ![p] = QueueFullResult]
    /\ UNCHANGED <<arg, returned, now, enabled, max_queue_size, queue, completed, req, request_id, deadline, wakeAt, timers>>

\* check() on content that needs review: build the request, add it, and run
\* _wait_for_review up to its first await
CheckEnqueue(p, content, context) ==
    /\ Arrives(p)
    /\ enabled
    /\ should_require_review(content, context)
    /\ add_request(queue, p).ret
    /\ LET id == generate_request_id(now)
           request == ReviewRequest(id, content, context, now, now + timeout_seconds * TicksPerSec)
           r == [x \in DOMAIN req \cup {p} |-> IF x = p THEN request ELSE req[x]]
       IN WaitStep(p, add_request(queue, p).queue, completed, r, id, now + timeout_seconds * TicksPerSec)
    /\ UNCHANGED <<arg, returned, now, enabled, max_queue_size>>

\* check(content, context) of call p: one of its four paths
check(p, content, context) ==
    \/ CheckDisabled(p, content, context)
    \/ CheckNotRequired(p, content, context)
    \/ CheckQueueFull(p, content, context)
    \/ CheckEnqueue(p, content, context)

\* asyncio.sleep(1) of call p returns and the wait loop runs once more
Wake(p) ==
    /\ pc[p] = "waiting"
    /\ timers # <<>> /\ Head(timers) = p
    /\ now >= wakeAt[p]
    /\ WaitStep(p, queue, completed, req, request_id[p], deadline[p])
    /\ UNCHANGED <<arg, returned, now, enabled, max_queue_size>>

\* the caller of check() cancels it while it sleeps between two polls
Cancel(p) ==
    /\ pc[p] = "waiting"
    /\ pc' = [pc EXCEPT ![p] = "cancelled"]
    /\ timers' = SelectSeq(timers, LAMBDA x : x # p)
    /\ request_id' = [request_id EXCEPT ![p] = NoId]
    /\ deadline' = [deadline EXCEPT ![p] = NoTime]
    /\ wakeAt' = [wakeAt EXCEPT ![p] = NoTime]
    /\ UNCHANGED <<arg, returned, now, enabled, max_queue_size, queue, completed, req, result>>

\* a reviewer action: complete_review with the status of the method called
ReviewerAction(status, id, reviewer, notes) ==
    LET done == complete_review(queue, completed, req, id, status, reviewer, notes, now)
    IN /\ queue' = done.queue
       /\ completed' = done.completed
       /\ req' = done.req
       /\ UNCHANGED <<arg, returned, now, enabled, max_queue_size, pc, request_id, deadline, wakeAt, timers, result>>

approve_request(id, reviewer, notes) == ReviewerAction(APPROVED, id, reviewer, notes)

reject_request(id, reviewer, notes) == ReviewerAction(REJECTED, id, reviewer, notes)

escalate_request(id, reviewer, notes) == ReviewerAction(ESCALATED, id, reviewer, notes)

\* review_queue.cleanup_expired_requests()
CleanupExpired ==
    LET swept == cleanup_expired_requests(queue, req, now)
    IN /\ queue' = swept.queue
       /\ req' = swept.req
       /\ UNCHANGED <<arg, returned, now, enabled, max_queue_size, completed, pc, request_id, deadline, wakeAt, timers, result>>

\* BaseGuardrail.enable()
enable ==
    /\ ~enabled
    /\ enabled' = TRUE
    /\ UNCHANGED <<arg, returned, now, max_queue_size, queue, completed, req, pc, request_id, deadline, wakeAt, timers, result>>

\* BaseGuardrail.disable()
disable ==
    /\ enabled
    /\ enabled' = FALSE
    /\ UNCHANGED <<arg, returned, now, max_queue_size, queue, completed, req, pc, request_id, deadline, wakeAt, timers, result>>

\* the clock advances; a sleeping call wakes no earlier than it asked for
\* and at most MaxLate ticks later
Tick ==
    /\ now < MaxTime
    /\ IF timers = <<>> THEN TRUE ELSE now < wakeAt[Head(timers)] + MaxLate
    /\ now' = now + 1
    /\ UNCHANGED <<arg, returned, enabled, max_queue_size, queue, completed, req, pc, request_id, deadline, wakeAt, timers, result>>

\* the ids a reviewer may name
KnownIds == {generate_request_id(t) : t \in 0..now}

Next ==
    \/ \E p \in Callers, in \in CheckInputs : CheckDisabled(p, in[1], in[2])
    \/ \E p \in Callers, in \in CheckInputs : CheckNotRequired(p, in[1], in[2])
    \/ \E p \in Callers, in \in CheckInputs : CheckQueueFull(p, in[1], in[2])
    \/ \E p \in Callers, in \in CheckInputs : CheckEnqueue(p, in[1], in[2])
    \/ \E p \in Callers : Wake(p)
    \/ \E p \in Callers : Cancel(p)
    \/ \E id \in KnownIds, rv \in Reviewers, n \in Notes : approve_request(id, rv, n)
    \/ \E id \in KnownIds, rv \in Reviewers, n \in Notes : reject_request(id, rv, n)
    \/ \E id \in KnownIds, rv \in Reviewers, n \in Notes : escalate_request(id, rv, n)
    \/ CleanupExpired
    \/ enable
    \/ disable
    \/ Tick

Spec == Init /\ [][Next]_vars

\* --------------------------------------------- the queue used directly
\* a ReviewQueue of a disabled manager, as demo_review_queue_management uses it
QueueInit ==
    /\ now = 0
    /\ enabled = FALSE
    /\ max_queue_size = NumRequests
    /\ queue = <<>>
    /\ completed = [k \in {} |-> NoRef]
    /\ req = [x \in {} |-> NoRef]
    /\ pc = [p \in Callers |-> "idle"]
    /\ request_id = [p \in Callers |-> NoId]
    /\ deadline = [p \in Callers |-> NoTime]
    /\ wakeAt = [p \in Callers |-> NoTime]
    /\ timers = <<>>
    /\ result = [p \in Callers |-> NoResult]
    /\ arg = NoCall
    /\ returned = NoCall

\* review_queue.add_request(ReviewRequest(id=..., content=..., context=...,
\* timeout_at=now + ...)); requests are numbered in the order they are built
AddDirect ==
    LET x == Cardinality(DOMAIN req) + 1
        request == ReviewRequest(<<"demo", x, 0>>, DeleteContent, DemoContext, now, now + timeout_seconds * TicksPerSec)
    IN /\ x <= NumRequests
       /\ req' = [y \in DOMAIN req \cup {x} |-> IF y = x THEN request ELSE req[y]]
       /\ queue' = add_request(queue, x).queue
       /\ UNCHANGED <<arg, returned, now, enabled, max_queue_size, completed, pc, request_id, deadline,
                      wakeAt, timers, result>>

QueueNext ==
    \/ AddDirect
    \/ \E id \in DemoIds, rv \in Reviewers, n \in Notes : approve_request(id, rv, n)
    \/ \E id \in DemoIds, rv \in Reviewers, n \in Notes : reject_request(id, rv, n)
    \/ \E id \in DemoIds, rv \in Reviewers, n \in Notes : escalate_request(id, rv, n)
    \/ CleanupExpired
    \/ Tick

QueueSpec == QueueInit /\ [][QueueNext]_vars

\* ----------------------------------------------------- ApprovalWorkflow
default_approval_keywords ==
    <<<<"d", "e", "l", "e", "t", "e">>,
      <<"r", "e", "m", "o", "v", "e">>,
      <<"b", "a", "n">>,
      <<"s", "u", "s", "p", "e", "n", "d">>,
      <<"t", "e", "r", "m", "i", "n", "a", "t", "e">>,
      <<"r", "e", "f", "u", "n", "d">>,
      <<"c", "r", "e", "d", "i", "t">>,
      <<"p", "a", "y", "m", "e", "n", "t">>,
      <<"b", "i", "l", "l", "i", "n", "g">>>>

\* self.approval_keywords after ApprovalWorkflow(approval_keywords):
\* None and the empty list give the default list
approval_keywords(configured) ==
    IF configured = <<>> THEN default_approval_keywords ELSE configured

\* ApprovalWorkflow.check(content) of a workflow with these keywords
approval_check(keywords, content) ==
    LET triggered_keywords == SelectSeq(keywords, LAMBDA k : Contains(k, Lower(content.text)))
    IN IF triggered_keywords # <<>> THEN
           [passed |-> FALSE, severity |-> HIGH, message |-> "Content requires manual approval",
            violations |-> << <<"Approval required due to keywords: ", triggered_keywords>> >>,
            metadata |-> [triggered_keywords |-> triggered_keywords]]
       ELSE
           [passed |-> TRUE, severity |-> LOW, message |-> "No approval required",
            violations |-> <<>>, metadata |-> [triggered_keywords |-> <<>>]]

\* ------------------------------------------- CustomGuardrailAgent
\* the entry the human_review node appends to state["guardrail_results"]
human_review(guardrail_results, review_result) ==
    Append(guardrail_results,
           [step |-> "human_review", passed |-> review_result.passed,
            severity |-> review_result.severity, message |-> review_result.message,
            violations |-> review_result.violations, guardrail |-> "human_review_manager"])

\* "timeout" in message.lower(), for the messages of HumanReviewManager
HasTimeout(message) == message \in {"Human review timeout"}

\* the edge _should_continue_after_human_review chooses
should_continue_after_human_review(guardrail_results) ==
    LET review_results == SelectSeq(guardrail_results, LAMBDA x : x.step = "human_review")
    IN IF review_results = <<>> THEN "timeout"
       ELSE IF review_results[Len(review_results)].passed THEN "approved"
       ELSE IF HasTimeout(review_results[Len(review_results)].message) THEN "timeout"
       ELSE "rejected"

\* state["guardrail_results"] when the human_review node is entered: the
\* output validation found a critical violation
OutputResults ==
    << [step |-> "output_validation", passed |-> FALSE, severity |-> CRITICAL,
        message |-> "Business rule violation", violations |-> <<"rule">>,
        guardrail |-> "business_rule_checker"] >>

\* what human_review_manager.check can return to the node
ManagerVerdicts ==
    {[manager_enabled |-> FALSE, review_result |-> DisabledResult]}
    \cup {[manager_enabled |-> TRUE, review_result |-> v] :
              v \in {NotRequiredResult, QueueFullResult, TimeoutResult(generate_request_id(0))}}

\* ------------------------------------------------- the stateless calls
\* requests as they are when _create_result_from_review sees them: completed
\* by a reviewer, timed out by a wait loop, or expired by a sweep
ReviewedRequests ==
    LET fresh == ReviewRequest(generate_request_id(0), DeleteContent, EmptyContext, 0,
                               timeout_seconds * TicksPerSec)
    IN {[fresh EXCEPT !.status = st, !.reviewer = rv, !.review_notes = n, !.reviewed_at = t] :
            st \in {APPROVED, REJECTED, ESCALATED}, rv \in {"r1", "senior_reviewer"},
            n \in {None, "", "ok"}, t \in 0..MaxTime}
       \cup {[fresh EXCEPT !.status = TIMEOUT, !.reviewer = "system", !.reviewed_at = t] :
                t \in 0..MaxTime}
       \cup {[fresh EXCEPT !.status = TIMEOUT]}

PureCalls ==
    {[fn |-> "create_result_from_review", request |-> rq] : rq \in ReviewedRequests}
    \cup {[fn |-> "should_require_review", content |-> c, context |-> x] :
              c \in ReviewContents, x \in ReviewContexts}
    \cup {[fn |-> "approval_check", configured |-> k, content |-> c] :
              k \in ApprovalConfigs, c \in ApprovalContents}
    \cup {[fn |-> "human_review", manager_enabled |-> m.manager_enabled,
           review_result |-> m.review_result] : m \in ManagerVerdicts}
    \cup {[fn |-> "human_review", manager_enabled |-> TRUE,
           review_result |-> create_result_from_review(rq)] : rq \in ReviewedRequests}

PureInit ==
    /\ now = 0
    /\ enabled = TRUE
    /\ max_queue_size = MaxQueueSize
    /\ queue = <<>>
    /\ completed = [k \in {} |-> NoRef]
    /\ req = [x \in {} |-> NoRef]
    /\ pc = [p \in Callers |-> "idle"]
    /\ request_id = [p \in Callers |-> NoId]
    /\ deadline = [p \in Callers |-> NoTime]
    /\ wakeAt = [p \in Callers |-> NoTime]
    /\ timers = <<>>
    /\ result = [p \in Callers |-> NoResult]
    /\ arg \in PureCalls
    /\ returned = NoCall

\* self._create_result_from_review(request)
CreateResult ==
    /\ arg.fn = "create_result_from_review" /\ returned = NoCall
    /\ returned' = [fn |-> arg.fn, value |-> create_result_from_review(arg.request)]
    /\ UNCHANGED <<arg, now, enabled, max_queue_size, queue, completed, req, pc, request_id, deadline,
                   wakeAt, timers, result>>

\* self._should_require_review(content, context)
ShouldRequireReview ==
    /\ arg.fn = "should_require_review" /\ returned = NoCall
    /\ returned' = [fn |-> arg.fn, value |-> should_require_review(arg.content, arg.context)]
    /\ UNCHANGED <<arg, now, enabled, max_queue_size, queue, completed, req, pc, request_id, deadline,
                   wakeAt, timers, result>>

\* ApprovalWorkflow(approval_keywords=configured).check(content)
ApprovalCheck ==
    /\ arg.fn = "approval_check" /\ returned = NoCall
    /\ returned' = [fn |-> arg.fn,
                    value |-> approval_check(approval_keywords(arg.configured), arg.content)]
    /\ UNCHANGED <<arg, now, enabled, max_queue_size, queue, completed, req, pc, request_id, deadline,
                   wakeAt, timers, result>>

\* the human_review node followed by its conditional edge
HumanReviewNode ==
    /\ arg.fn = "human_review" /\ returned = NoCall
    /\ returned' = [fn |-> arg.fn,
                    value |-> should_continue_after_human_review(
                                  human_review(OutputResults, arg.review_result))]
    /\ UNCHANGED <<arg, now, enabled, max_queue_size, queue, completed, req, pc, request_id, deadline,
                   wakeAt, timers, result>>

PureNext ==
    \/ CreateResult
    \/ ShouldRequireReview
    \/ ApprovalCheck
    \/ HumanReviewNode

PureSpec == PureInit /\ [][PureNext]_vars

\* the event loop runs a due timer and the clock does not stop; nothing
\* schedules reviewer actions, sweeps or cancellations
FairSpec == Spec /\ WF_vars(Tick) /\ \A p \in Callers : WF_vars(Wake(p))

\* ------------------------------------------------------------ properties
Terminal == ReviewStatus \ {PENDING}

InQueue(p) == \E i \in 1..Len(queue) : queue[i] = p
InCompleted(p) == \E id \in DOMAIN completed : completed[id] = p
OwnId(p) == \A o \in DOMAIN req : o # p => req[o].id # req[p].id

\* C1: once a complete call on an id has returned true (the id is in the
\* completed map), every further complete call on that id returns false and
\* leaves the status stored under the id as it was.
C1_ExclusiveCompletion ==
    \A id \in DOMAIN completed : \A st \in Terminal :
        LET again == complete_review(queue, completed, req, id, st, "r1", "ok", now)
        IN /\ again.ret = FALSE
           /\ again.req[again.completed[id]].status = req[completed[id]].status

\* C2: every request that was added is in exactly one of the outstanding
\* and the completed collection (stated for the requests whose id no other
\* request shares).
C2_ExactlyOneCollection ==
    \A p \in DOMAIN req : OwnId(p) => (InQueue(p) # InCompleted(p))

\* C3: a status that has left Pending is never changed by any later step.
C3_StatusChangesOnce ==
    [][\A p \in DOMAIN req : req[p].status # PENDING => req'[p].status = req[p].status]_vars

\* C3 witness: a request approved earlier kept its status although a later
\* completion was made under the same id.
C3_Witness ==
    \E p, o \in DOMAIN req :
        /\ p # o /\ req[p].id = req[o].id
        /\ req[p].status = APPROVED /\ req[o].status = TIMEOUT
        /\ req[o].reviewed_at > req[p].reviewed_at

\* C4: the verdict check returned for the request it enqueued is the mapping
\* of that request's stored status: passed iff Approved, and the timeout
\* verdict only for a TimedOut request (stated for the requests whose id no
\* other request shares).
C4_VerdictMapsStatus ==
    \A p \in DOMAIN req : pc[p] = "done" /\ OwnId(p) =>
        /\ result[p].passed <=> req[p].status = APPROVED
        /\ result[p].message = "Human review timeout" => req[p].status = TIMEOUT

\* C5: a request approved before the deadline of its wait gives its check
\* the verdict passed=true with severity LOW (stated for the requests whose
\* id no other request shares).
C5_ApprovedInTimePasses ==
    \A p \in DOMAIN req :
        (/\ pc[p] = "done"
         /\ OwnId(p)
         /\ req[p].status = APPROVED
         /\ req[p].reviewed_at < req[p].created_at + timeout_seconds * TicksPerSec)
        => (result[p].passed /\ result[p].severity = LOW)

\* a request the sweep expired: cleanup_expired_requests writes the status only
Swept(p) == req[p].status = TIMEOUT /\ req[p].reviewer = None

\* C6: of a sweep and an approve on one request exactly one takes effect:
\* after the sweep expired it an approve on its id returns false, after the
\* approve a sweep does not report it, and its fields are the winner's.
C6_SweepApproveRace ==
    \A p \in DOMAIN req :
        /\ Swept(p) =>
              /\ complete_review(queue, completed, req, req[p].id, APPROVED, "r1", "ok", now).ret = FALSE
              /\ req[p].review_notes = None /\ req[p].reviewed_at = NoTime
        /\ req[p].status = APPROVED =>
              /\ \A i \in 1..Len(cleanup_expired_requests(queue, req, now).ret) :
                     cleanup_expired_requests(queue, req, now).ret[i] # p
              /\ cleanup_expired_requests(queue, req, now).req[p] = req[p]
              /\ req[p].reviewer # None /\ req[p].reviewed_at # NoTime

\* C7: a second complete call on an id returns false and the request found
\* under the id keeps the status, reviewer, notes and time of the first call.
C7_CompleteIdempotent ==
    \A id \in DOMAIN completed : \A st \in Terminal :
        LET first == req[get_request(queue, completed, req, id)]
            again == complete_review(queue, completed, req, id, st, "r2", None, now)
            after == again.req[get_request(again.queue, again.completed, again.req, id)]
        IN /\ again.ret = FALSE
           /\ after.status = first.status
           /\ after.reviewer = first.reviewer
           /\ after.review_notes = first.review_notes
           /\ after.reviewed_at = first.reviewed_at

\* C8: two requests created by check calls on the manager have different ids.
C8_UniqueIds ==
    \A p, o \in DOMAIN req : p # o => req[p].id # req[o].id

\* C9: a step that adds a request leaves every request held under an id the
\* one get returns for it, unchanged, and no step replaces an entry of the
\* completed collection.
C9_AddNeverOverwrites ==
    [][/\ DOMAIN req' # DOMAIN req =>
             \A id \in KnownIds :
                 get_request(queue, completed, req, id) # NoRef =>
                     /\ get_request(queue', completed', req', id) = get_request(queue, completed, req, id)
                     /\ req'[get_request(queue, completed, req, id)] = req[get_request(queue, completed, req, id)]
       /\ \A id \in DOMAIN completed : completed'[id] = completed[id]]_vars

\* C10: a check that enqueued a request waits with the request outstanding,
\* and when it has returned the request has a terminal status.
C10_TerminalOnReturn ==
    \A p \in DOMAIN req :
        /\ pc[p] = "waiting" /\ req[p].status = PENDING => InQueue(p)
        /\ pc[p] = "done" => req[p].status \in Terminal

\* C11: a check that is still waiting has not waited longer than
\* timeout_seconds, and its request was still Pending at its last poll (a
\* non-Pending status stops the loop at the poll that follows it).
C11_BoundedWait ==
    \A p \in DOMAIN req : pc[p] = "waiting" =>
        /\ now <= req[p].created_at + timeout_seconds * TicksPerSec
        /\ (req[p].status # PENDING /\ req[p].reviewed_at # NoTime) =>
               req[p].reviewed_at >= wakeAt[p] - TicksPerSec

\* C12: the timeout attempt of a wait loop takes effect on its request or
\* finds it terminal already, and once a request is TimedOut a further
\* timeout completion and a further sweep leave it unchanged and unreported.
C12_TimeoutExactlyOnce ==
    \A p \in DOMAIN req :
        /\ (pc[p] = "done" /\ result[p] = TimeoutResult(req[p].id)) => req[p].status # PENDING
        /\ req[p].status = TIMEOUT =>
              /\ complete_review(queue, completed, req, req[p].id, TIMEOUT, "system", None, now).req[p] = req[p]
              /\ cleanup_expired_requests(queue, req, now).req[p] = req[p]
              /\ \A i \in 1..Len(cleanup_expired_requests(queue, req, now).ret) :
                     cleanup_expired_requests(queue, req, now).ret[i] # p

\* C13: cleanup_expired returns the outstanding requests whose timeout_at has
\* passed and leaves the others outstanding and Pending; each returned request
\* went through the completion path (TimedOut, reviewed_at set), and a request
\* a sweep expired is in the completed collection.
C13_SweepCompletes ==
    LET swept == cleanup_expired_requests(queue, req, now)
    IN /\ \A i \in 1..Len(queue) :
              IF now > req[queue[i]].timeout_at
              THEN /\ \E j \in 1..Len(swept.ret) : swept.ret[j] = queue[i]
                   /\ swept.req[queue[i]].status = TIMEOUT
                   /\ swept.req[queue[i]].reviewed_at # NoTime
              ELSE /\ \A j \in 1..Len(swept.ret) : swept.ret[j] # queue[i]
                   /\ \E j \in 1..Len(swept.queue) : swept.queue[j] = queue[i]
                   /\ swept.req[queue[i]].status = PENDING
       /\ \A p \in DOMAIN req : Swept(p) => InCompleted(p)

\* C14: add_request returns false and leaves the queue as it is exactly when
\* the queue holds max_queue_size requests or more, otherwise it appends the
\* request and returns true; the queue never holds more than max_queue_size.
C14_Capacity ==
    /\ Len(queue) <= max_queue_size
    /\ \A x \in Callers :
           LET added == add_request(queue, x)
           IN /\ added.ret = FALSE <=> Len(queue) >= max_queue_size
              /\ added.ret = FALSE => added.queue = queue
              /\ added.ret = TRUE => added.queue = Append(queue, x)

\* C14 witness: the queue is filled to a maximum of two requests, so that a
\* further add_request is refused.
C14_Witness ==
    /\ max_queue_size = MaxQueueSize
    /\ Len(queue) = max_queue_size
    /\ \A x \in Callers : add_request(queue, x).ret = FALSE

\* C15: a check call of the enabled manager on content that requires review,
\* made while the queue is at capacity, returns in the same step with
\* passed=false, severity HIGH and the violation "Review queue at capacity";
\* it starts no sleep and leaves the queue, the completed map and every
\* request as they were.
C15_QueueFullRefuses ==
    [][\A p \in Callers, in \in CheckInputs :
           (/\ pc[p] = "idle" /\ pc'[p] # "idle"
            /\ enabled
            /\ Len(queue) >= max_queue_size
            /\ should_require_review(in[1], in[2])
            /\ check(p, in[1], in[2]))
           => (/\ pc'[p] = "done"
               /\ result'[p].passed = FALSE
               /\ result'[p].severity = HIGH
               /\ result'[p].violations = <<"Review queue at capacity">>
               /\ timers' = timers /\ wakeAt' = wakeAt
               /\ queue' = queue /\ completed' = completed /\ req' = req)]_vars

\* C15 witness: a check returned the queue-full verdict while the request of
\* an earlier caller filled the queue; the refused caller has no request.
C15_Witness ==
    \E p \in Callers :
        /\ pc[p] = "done"
        /\ result[p].violations = <<"Review queue at capacity">>
        /\ p \notin DOMAIN req
        /\ \E o \in DOMAIN req : o < p /\ InQueue(o)

\* C16: a check that has returned and whose request no reviewer completed
\* returned passed=false, severity HIGH, "Human review timeout", and its
\* request is in the completed collection with status TimedOut (stated for
\* the requests whose id no other request shares).
C16_TimeoutReported ==
    \A p \in DOMAIN req :
        (pc[p] = "done" /\ OwnId(p) /\ req[p].status \notin {APPROVED, REJECTED, ESCALATED})
        => (/\ result[p].passed = FALSE
            /\ result[p].severity = HIGH
            /\ result[p].message = "Human review timeout"
            /\ InCompleted(p)
            /\ req[p].status = TIMEOUT)

\* C17: approve, reject and escalate on an id that no request has, or that a
\* request with a terminal status has, return false and leave the queue, the
\* completed map and every request unchanged.
C17_UnknownOrTerminalRefused ==
    \A id \in KnownIds : \A st \in {APPROVED, REJECTED, ESCALATED} :
        (\/ \A p \in DOMAIN req : req[p].id # id
         \/ \E p \in DOMAIN req : req[p].id = id /\ req[p].status \in Terminal)
        => LET acted == complete_review(queue, completed, req, id, st, "r1", "ok", now)
           IN /\ acted.ret = FALSE
              /\ acted.queue = queue
              /\ acted.completed = completed
              /\ acted.req = req

\* C18: cancelling a waiting check changes neither collection nor any
\* request (the request stays outstanding and Pending, reviewer and
\* reviewed_at unset), and the request of a cancelled check whose timeout_at
\* has passed does not stay Pending for ever.
C18_CancelledTimesOut ==
    /\ [][\A p \in Callers : (pc[p] = "waiting" /\ pc'[p] = "cancelled") =>
              (/\ queue' = queue /\ completed' = completed /\ req' = req
               /\ InQueue(p) = (req[p].status = PENDING))]_vars
    /\ \A p \in Callers :
           (/\ pc[p] = "cancelled" /\ p \in DOMAIN req
            /\ req[p].status = PENDING /\ now > req[p].timeout_at)
           ~> (p \in DOMAIN req /\ req[p].status # PENDING)

\* C19: a check call on content and context that do not match the review
\* predicate returns in the same step with passed=true, creates no request,
\* starts no sleep and leaves the queue and the completed map unchanged.
C19_NotRequiredSkipsQueue ==
    [][\A p \in Callers, in \in CheckInputs :
           (/\ pc[p] = "idle" /\ pc'[p] # "idle"
            /\ ~should_require_review(in[1], in[2])
            /\ check(p, in[1], in[2]))
           => (/\ pc'[p] = "done"
               /\ result'[p].passed = TRUE
               /\ timers' = timers /\ wakeAt' = wakeAt
               /\ queue' = queue /\ completed' = completed /\ req' = req)]_vars

\* C19 witness: the enabled manager passed a check without review while the
\* request of an earlier caller was outstanding; the caller has no request.
C19_Witness ==
    \E p \in Callers :
        /\ pc[p] = "done"
        /\ result[p].message = "No human review required"
        /\ p \notin DOMAIN req
        /\ \E o \in DOMAIN req : o < p /\ InQueue(o)

\* C20: a check call of the disabled manager, on any content and context,
\* returns in the same step with passed=true, severity LOW and the metadata
\* flag human_review_enabled = false, creates no request, starts no sleep and
\* leaves the queue and the completed map unchanged.
C20_DisabledSkipsQueue ==
    [][\A p \in Callers, in \in CheckInputs :
           (/\ pc[p] = "idle" /\ pc'[p] # "idle"
            /\ ~enabled
            /\ check(p, in[1], in[2]))
           => (/\ pc'[p] = "done"
               /\ result'[p].passed = TRUE
               /\ result'[p].severity = LOW
               /\ result'[p].metadata = [human_review_enabled |-> FALSE]
               /\ timers' = timers /\ wakeAt' = wakeAt
               /\ queue' = queue /\ completed' = completed /\ req' = req)]_vars

\* C20 witness: the manager was disabled while the request of an earlier
\* caller was outstanding, and a check made then returned the disabled
\* verdict; the caller has no request.
C20_Witness ==
    \E p \in Callers :
        /\ ~enabled
        /\ pc[p] = "done"
        /\ result[p].message = "Human review disabled"
        /\ p \notin DOMAIN req
        /\ \E o \in DOMAIN req : o < p /\ InQueue(o)

\* C21: get_pending_requests lists exactly the requests that are in the queue
\* with status Pending, each once, in the order in which they were added.
C21_PendingFifo ==
    LET pend == get_pending_requests(queue, req)
    IN /\ \A p \in DOMAIN req :
              (InQueue(p) /\ req[p].status = PENDING) <=> (\E i \in 1..Len(pend) : pend[i] = p)
       /\ \A i, j \in 1..Len(pend) : i < j => pend[i] < pend[j]

\* C21 witness: the request added first was completed by a reviewer and the
\* two requests added after it are listed.
C21_Witness ==
    /\ 1 \in DOMAIN req /\ InCompleted(1) /\ req[1].status = APPROVED
    /\ Len(get_pending_requests(queue, req)) = 2

\* C22: the verdict made from a terminal request follows its status: Approved
\* passes with LOW; Rejected fails with HIGH and a violation with the notes,
\* or "No reason provided" without notes; Escalated fails with CRITICAL;
\* TimedOut fails with HIGH and the violation "Review request timed out".
C22_VerdictByStatus ==
    returned.fn = "create_result_from_review" =>
        LET rq == arg.request
            v == returned.value
        IN /\ rq.status = APPROVED => (v.passed = TRUE /\ v.severity = LOW)
           /\ rq.status = REJECTED =>
                  /\ v.passed = FALSE /\ v.severity = HIGH
                  /\ v.violations = << <<"Rejected: ",
                                        IF rq.review_notes \in {None, ""}
                                        THEN "No reason provided" ELSE rq.review_notes>> >>
           /\ rq.status = ESCALATED => (v.passed = FALSE /\ v.severity = CRITICAL)
           /\ rq.status = TIMEOUT =>
                  /\ v.passed = FALSE /\ v.severity = HIGH
                  /\ v.violations = <<"Review request timed out">>

\* C22 witness: the verdict of a request rejected without notes was made.
C22_Witness ==
    /\ returned.fn = "create_result_from_review"
    /\ arg.request.status = REJECTED /\ arg.request.review_notes = None
    /\ returned.value.violations = << <<"Rejected: ", "No reason provided">> >>

C24_ApprovalIffKeyword ==
    returned.fn = "approval_check" =>
        LET keywords == approval_keywords(arg.configured)
            hit(k) == Contains(Lower(k), Lower(arg.content.text))
            v == returned.value
        IN /\ (v.passed = FALSE /\ v.severity = HIGH) <=> (\E i \in 1..Len(keywords) : hit(keywords[i]))
           /\ v.passed = TRUE <=> ~(\E i \in 1..Len(keywords) : hit(keywords[i]))
           /\ v.metadata.triggered_keywords = SelectSeq(keywords, hit)

\* C25: a request has a reviewer and a reviewed_at exactly when its status is
\* terminal, and a Pending request has no review_notes either.
C25_ReviewFieldsIffTerminal ==
    \A p \in DOMAIN req :
        /\ req[p].status \in Terminal <=> (req[p].reviewer # None /\ req[p].reviewed_at # NoTime)
        /\ req[p].status = PENDING =>
               (req[p].reviewer = None /\ req[p].reviewed_at = NoTime /\ req[p].review_notes = None)

\* C26: every request in the queue is Pending and every request in the
\* completed map has a terminal status.
C26_CollectionsByStatus ==
    /\ \A i \in 1..Len(queue) : req[queue[i]].status = PENDING
    /\ \A id \in DOMAIN completed : req[completed[id]].status \in Terminal

\* C26 witness: one request is in the queue while another, timed out, is in
\* the completed map.
C26_Witness ==
    \E p, o \in DOMAIN req : InQueue(p) /\ InCompleted(o) /\ req[o].status = TIMEOUT

\* C27: no step takes a request from Pending to TimedOut before its
\* timeout_at, and the deadline of a waiting check is not earlier than the
\* timeout_at of its request.
C27_NoEarlyTimeout ==
    /\ [][\A p \in DOMAIN req :
              (req[p].status = PENDING /\ req'[p].status = TIMEOUT) => now >= req[p].timeout_at]_vars
    /\ [](\A p \in DOMAIN req : pc[p] = "waiting" => deadline[p] >= req[p].timeout_at)

\* C28: the edge after the human_review node is "approved" only when a
\* reviewer approved the content; the verdict of a disabled manager never
\* leads to "approved".
C28_ApprovedOnlyByReviewer ==
    (returned.fn = "human_review" /\ returned.value = "approved") =>
        /\ arg.manager_enabled
        /\ arg.review_result.message = "Content approved by human reviewer"

\* C29: the request a waiting check finds under its id is its own, and the
\* step in which a wait loop ends changes the status of no request of
\* another check.
C29_WaitLoopOwnRequest ==
    /\ [](\A p \in DOMAIN req : pc[p] = "waiting" =>
              get_request(queue, completed, req, request_id[p]) \in {p, NoRef})
    /\ [][\A p \in Callers : (pc[p] = "waiting" /\ pc'[p] = "done") =>
              \A o \in DOMAIN req : o # p => req'[o].status = req[o].status]_vars

\* C30: a complete_review that returns true changes the status, reviewer,
\* notes and reviewed_at of the one request it completes and nothing else:
\* every other request keeps its fields and its collection, and the completed
\* request keeps its id, content, context, created_at and timeout_at.
C30_CompleteFrame ==
    \A id \in KnownIds : \A st \in Terminal :
        LET acted == complete_review(queue, completed, req, id, st, "r1", "ok", now)
        IN acted.ret = TRUE =>
            LET x == queue[Min(Matches(queue, req, id))]
            IN /\ \A o \in DOMAIN req \ {x} :
                      /\ acted.req[o] = req[o]
                      /\ (\E i \in 1..Len(acted.queue) : acted.queue[i] = o) <=> InQueue(o)
                      /\ (\E k \in DOMAIN acted.completed : acted.completed[k] = o) <=> InCompleted(o)
               /\ acted.req[x].id = req[x].id
               /\ acted.req[x].content = req[x].content
               /\ acted.req[x].context = req[x].context
               /\ acted.req[x].created_at = req[x].created_at
               /\ acted.req[x].timeout_at = req[x].timeout_at

====
